---- MODULE Spec2Model ----
(***************************************************************************)
(* Verification model of the stream_ml / stream_mapper probability core:   *)
(* the mixture model (libs/jax mixture.py), the probability protocol       *)
(* (likelihood_api.py), the Exponential background model                   *)
(* (builtin/_exponential.py), the bounded hard-threshold prior             *)
(* (libs/pytorch prior/weight.py), the data converters (_connect/data.py)  *)
(* and the caching descriptors (utils/cached_property.py).                 *)
(*                                                                         *)
(* Every evaluation is a call on a model instance `self` that is fixed at  *)
(* construction (Init).  A call draws its arguments, runs the whole        *)
(* method and leaves the returned value (or the raised error) in `result`; *)
(* Return pops the frame.  For the caching descriptors `self` also holds   *)
(* the instances' attributes, which a read may extend.                     *)
(*                                                                         *)
(* Numbers.  Real arithmetic is exact.  A linear-domain number is a        *)
(* rational <<n, d>> in lowest terms.  A log-domain number is the          *)
(* logarithm of a positive rational, kept as [t |-> "ln", q |-> <<n, d>>], *)
(* or one of the IEEE specials -inf and NaN.  Logarithms are taken to base *)
(* 2, i.e. log-values are measured in units of ln 2.                       *)
(***************************************************************************)
EXTENDS Integers, Sequences, FiniteSets, TLC

VARIABLES self, op, mpars, data, kwargs, result, trace

vars == <<self, op, mpars, data, kwargs, result, trace>>

\* Number of rows N of every data table and parameter array.
NRows == 2

Rows == 1..NRows

-----------------------------------------------------------------------------
(* Exact rationals *)

Abs(n) == IF n < 0 THEN -n ELSE n

RECURSIVE Gcd(_, _)
Gcd(a, b) == IF b = 0 THEN a ELSE Gcd(b, a % b)

Rat(n, d) ==
    LET g == Gcd(Abs(n), Abs(d))
        s == IF d < 0 THEN -1 ELSE 1
    IN  <<(s * n) \div g, (s * d) \div g>>

RAdd(p, q) == Rat(p[1] * q[2] + q[1] * p[2], p[2] * q[2])
RMul(p, q) == Rat(p[1] * q[1], p[2] * q[2])
RInv(p)    == Rat(p[2], p[1])
RLess(p, q) == p[1] * q[2] < q[1] * p[2]

RZero == <<0, 1>>
ROne  == <<1, 1>>
\* exp(NaN): the linear-domain NaN
RNaN  == <<0, 0>>

-----------------------------------------------------------------------------
(* Log-domain numbers and the array namespace (xp) *)

NegInf == [t |-> "ninf", q |-> RZero]
NaN    == [t |-> "nan", q |-> RZero]
Ln(q)  == [t |-> "ln", q |-> q]
LZero  == Ln(ROne)

\* xp.log of a non-negative rational
Log(q) == IF q = RNaN THEN NaN ELSE IF q[1] = 0 THEN NegInf ELSE Ln(q)

\* xp.exp
Exp(l) == IF l.t = "nan" THEN RNaN ELSE IF l.t = "ninf" THEN RZero ELSE l.q

\* a + b on log-domain numbers
LAdd(a, b) ==
    IF a.t = "nan" \/ b.t = "nan" THEN NaN
    ELSE IF a.t = "ninf" \/ b.t = "ninf" THEN NegInf
    ELSE Ln(RMul(a.q, b.q))

\* -a for a finite log-domain number (its +inf image is not represented)
LNeg(a) == IF a.t = "ln" THEN Ln(RInv(a.q)) ELSE NaN

\* a - b
LSub(a, b) == LAdd(a, LNeg(b))

\* indicator * a, the indicator being 0/1 (False/True): 0 * -inf is NaN
LTimes(i, a) ==
    IF a.t = "nan" THEN NaN
    ELSE IF i = 1 THEN a
    ELSE IF a.t = "ninf" THEN NaN
    ELSE LZero

RECURSIVE LSumSeq(_)
LSumSeq(s) == IF s = <<>> THEN LZero ELSE LAdd(Head(s), LSumSeq(Tail(s)))

RECURSIVE RSumSeq(_)
RSumSeq(s) ==
    IF s = <<>> THEN RZero
    ELSE IF Head(s) = RNaN \/ RSumSeq(Tail(s)) = RNaN THEN RNaN
    ELSE RAdd(Head(s), RSumSeq(Tail(s)))

\* Mutant of logsumexp: the first column of the stacked matrix
logsumexp_first_column(s) == Head(s)

\* Mutant of logsumexp: the plain sum of the log-likelihoods
logsumexp_plain_sum(s) == LSumSeq(s)

\* jax.scipy.special.logsumexp over one row of the stacked matrix
logsumexp(s) == Log(RSumSeq([k \in DOMAIN s |-> Exp(s[k])]))

\* The outcome of a call: a returned value or a raised error
Ok(v)    == [ok |-> TRUE, val |-> v]
Raise(e) == [ok |-> FALSE, val |-> e]

RECURSIVE SeqSum(_)
SeqSum(s) == IF s = <<>> THEN 0 ELSE Head(s) + SeqSum(Tail(s))

RECURSIVE Concat(_)
Concat(ss) == IF ss = <<>> THEN <<>> ELSE Head(ss) \o Concat(Tail(ss))

\* list.index, 1-based; 0 when the element is absent (Python raises ValueError)
Index(s, x) == IF \E i \in DOMAIN s : s[i] = x
               THEN CHOOSE i \in DOMAIN s : s[i] = x /\ \A j \in 1..(i - 1) : s[j] # x
               ELSE 0

-----------------------------------------------------------------------------
(* Uniform log-pdf (builtin/_stats/uniform.py) *)

\* -log(b - a) for x in [a, b], nil otherwise
uniform_logpdf(x, a, b, nil) ==
    IF a <= x /\ x <= b THEN LNeg(Log(Rat(b - a, 1))) ELSE nil

-----------------------------------------------------------------------------
(* Named parameter container (Params) *)

\* A dotted coordinate name "a.b" is the sequence <<"a", "b">>; a key is
\* <<coordinate>> or <<coordinate, parameter>>.
HasPrefix(k, name) == Len(k[1]) > 1 /\ Head(k[1]) = name
StripPrefix(k) == [k EXCEPT ![1] = Tail(k[1])]

\* Params.get_prefixed: the entries whose coordinate begins with `name.`,
\* the prefix stripped
get_prefixed(P, name) ==
    LET ks == {k \in DOMAIN P : HasPrefix(k, name)}
    IN  [j \in {StripPrefix(k) : k \in ks} |->
            P[CHOOSE k \in ks : StripPrefix(k) = j]]

WeightKey == << <<"weight">> >>
ChildWeightKey(name) == << <<name, "weight">> >>

-----------------------------------------------------------------------------
(* Prior plugin: BoundedHardThreshold (libs/pytorch prior/weight.py) *)

\* A domain bound: a finite number or an infinity
Fin(v)   == [inf |-> 0, v |-> v]
MinusInf == [inf |-> -1, v |-> 0]
PlusInf  == [inf |-> 1, v |-> 0]

\* The dataclass fields threshold, coord_name, lower, upper
BoundedHardThreshold(threshold, coord_name, lower, upper) ==
    [threshold |-> threshold, coord_name |-> coord_name,
     lower |-> lower, upper |-> upper]

\* utils.misc.within_bounds: lower <= x <= upper
within_bounds(x, lower, upper) ==
    /\ (lower.inf = -1 \/ (lower.inf = 0 /\ lower.v <= x))
    /\ (upper.inf = 1 \/ (upper.inf = 0 /\ x <= upper.v))

\* torch.threshold(x, threshold, value): x when x > threshold, else value
Threshold(x, threshold, value) == IF RLess(threshold, x) THEN x ELSE value

\* BoundedHardThreshold.logpdf: -inf where the coordinate is in bounds and the
\* weight is below the threshold, 0 elsewhere
BoundedHardThreshold_logpdf(prior, pars, dat, model, current_lnpdf) ==
    [i \in Rows |->
        IF /\ within_bounds(dat[prior.coord_name][i], prior.lower, prior.upper)
           /\ RLess(pars[WeightKey][i], prior.threshold)
        THEN NegInf ELSE LZero]

\* BoundedHardThreshold.__call__ on the forward array nn (rows of columns)
BoundedHardThreshold_call(prior, nn, dat, model) ==
    LET im1 == Index(model.param_names, <<"stream", "weight">>)
        where == [i \in Rows |->
                    within_bounds(dat[prior.coord_name][i], prior.lower, prior.upper)]
    IN  IF im1 = 0 THEN Raise("ValueError")
        ELSE IF \E i \in Rows : where[i]
        THEN Ok([i \in Rows |->
                    IF where[i]
                    THEN [nn[i] EXCEPT ![im1] = Threshold(nn[i][im1], prior.threshold, RZero)]
                    ELSE nn[i]])
        ELSE Ok([i \in Rows |->
                    [nn[i] EXCEPT ![im1] = Threshold(nn[i][im1], prior.threshold, RZero)]])

-----------------------------------------------------------------------------
(* The plugin's methods on array objects.  A store maps the names of the    *)
(* array objects a call can reach to their contents: "self" is the model    *)
(* passed in, "weight" the array pars[("weight",)], "data" the Data table,  *)
(* "nn" the forward array; "lnp" and "out" are the arrays the methods       *)
(* allocate.  An assignment to an indexed array writes the object the name  *)
(* refers to.                                                               *)

\* A linear-domain element of a float array
Lin(q) == [t |-> "lin", q |-> q]

Store(model, weight, dat, nn) ==
    [self |-> model, weight |-> weight, data |-> dat, nn |-> nn,
     lnp |-> <<>>, out |-> <<>>]

\* Mutant of zeros_like: lnp is bound to the weight array itself
zeros_like_alias(s, a) == [store |-> s, ref |-> a]

\* xp.zeros_like(a): a new array object of a's shape, filled with 0
zeros_like(s, a) ==
    [store |-> [s EXCEPT !["lnp"] = [i \in DOMAIN s[a] |-> LZero]], ref |-> "lnp"]

\* Mutant of clone: out is bound to nn itself
clone_alias(s, a) == [store |-> s, ref |-> a]

\* nn.clone(): a new array object holding a copy of a's contents
clone(s, a) == [store |-> [s EXCEPT !["out"] = s[a]], ref |-> "out"]

\* Mutant of logpdf_store: the weight is compared with <= threshold
BoundedHardThreshold_logpdf_store_le(prior, s, pars, dat, model) ==
    LET z == zeros_like(s, pars)
        mask == [i \in Rows |->
                    /\ within_bounds(s[dat][prior.coord_name][i], prior.lower, prior.upper)
                    /\ ~RLess(prior.threshold, s[pars][i].q)]
    IN  [store |-> [z.store EXCEPT ![z.ref] =
                        [i \in Rows |-> IF mask[i] THEN NegInf ELSE @[i]]],
         ret |-> Ok(z.ref)]

\* BoundedHardThreshold.logpdf: lnp = zeros_like(weight); lnp[mask] = -inf;
\* return lnp.  pars, dat and model name the arguments' objects.
BoundedHardThreshold_logpdf_store(prior, s, pars, dat, model) ==
    LET z == zeros_like(s, pars)
        mask == [i \in Rows |->
                    /\ within_bounds(s[dat][prior.coord_name][i], prior.lower, prior.upper)
                    /\ RLess(s[pars][i].q, prior.threshold)]
    IN  [store |-> [z.store EXCEPT ![z.ref] =
                        [i \in Rows |-> IF mask[i] THEN NegInf ELSE @[i]]],
         ret |-> Ok(z.ref)]

\* BoundedHardThreshold.__call__: index() first, then out = nn.clone() and the
\* assignment to out[where, im1] (or out[:, im1]); return out
BoundedHardThreshold_call_store(prior, s, nn, dat, model) ==
    LET r == BoundedHardThreshold_call(prior, s[nn], s[dat], s[model])
        c == clone(s, nn)
    IN  IF ~r.ok THEN [store |-> s, ret |-> r]
        ELSE [store |-> [c.store EXCEPT ![c.ref] = r.val], ret |-> Ok(c.ref)]

-----------------------------------------------------------------------------
(* Leaf components of the mixture.  Each child is a uniform leaf over the   *)
(* coordinate phi1 with an optional mixture-weight parameter.               *)

CompNames == {"stream", "background", "aux"}

ChildBounds(name) ==
    CASE name = "stream"     -> <<0, 1>>
      [] name = "background" -> <<0, 2>>
      [] OTHER               -> <<1, 2>>

\* The parameters a child declares; "aux" is parameter-less
ChildParamNames(name) == IF name = "aux" THEN <<>> ELSE <<"weight">>

\* child.ln_likelihood_arr(pars, data): ln(weight) + uniform log-pdf, per row
Child_ln_likelihood_arr(name, pars, dat) ==
    [i \in Rows |->
        LAdd(IF ChildParamNames(name) = <<>> THEN LZero ELSE Log(pars[WeightKey][i]),
             uniform_logpdf(dat["phi1"][i], ChildBounds(name)[1],
                            ChildBounds(name)[2], NegInf))]

\* child.ln_prior_arr(pars, data): a flat prior on weights of at least 1/2
Child_ln_prior_arr(name, pars, dat) ==
    [i \in Rows |->
        IF ChildParamNames(name) # <<>> /\ RLess(pars[WeightKey][i], <<1, 2>>)
        THEN NegInf ELSE LZero]

-----------------------------------------------------------------------------
(* MixtureModel (libs/jax mixture.py) *)

\* xp.hstack of K columns: one row of K values per data row
hstack(cols) == [i \in Rows |-> [k \in DOMAIN cols |-> cols[k][i]]]

\* param_names.flat of the mixture: "<component>_<parameter>" in declaration order
ParamNamesFlat(components) ==
    Concat([k \in DOMAIN components |->
        [j \in DOMAIN ChildParamNames(components[k]) |->
            <<components[k], ChildParamNames(components[k])[j]>>]])

\* The invocations of the children made by a statistics method, in order
ChildCalls(slf, method, P, dat) ==
    [k \in DOMAIN slf.components |->
        [callee |-> slf.components[k], method |-> method,
         pars |-> get_prefixed(P, slf.components[k]), data |-> dat]]

\* MixtureModel.ln_likelihood_arr
MixtureModel_ln_likelihood_arr(slf, P, dat) ==
    LET liks == [k \in DOMAIN slf.components |->
                    Child_ln_likelihood_arr(slf.components[k],
                                            get_prefixed(P, slf.components[k]), dat)]
        m == hstack(liks)
    IN  Ok([i \in Rows |-> logsumexp(m[i])])

\* ndarray.sum(dim=1) of a jax array: jax.numpy follows numpy, whose sum takes
\* `axis`; the keyword `dim` is rejected
sum_dim(m) == Raise("TypeError")

\* The plugin loop of ln_prior_arr over priors[j..], from running total lp
RECURSIVE LogpdfLoop(_, _, _, _, _)
LogpdfLoop(slf, j, lp, P, dat) ==
    IF j > Len(slf.priors) THEN lp
    ELSE LET add == BoundedHardThreshold_logpdf(slf.priors[j], P, dat, slf, lp)
         IN  LogpdfLoop(slf, j + 1, [i \in Rows |-> LAdd(lp[i], add[i])], P, dat)

\* The plugin invocations of the loop, each with the running total it receives
RECURSIVE LogpdfCalls(_, _, _, _, _)
LogpdfCalls(slf, j, lp, P, dat) ==
    IF j > Len(slf.priors) THEN <<>>
    ELSE LET add == BoundedHardThreshold_logpdf(slf.priors[j], P, dat, slf, lp)
         IN  <<[callee |-> slf.priors[j], method |-> "logpdf", pars |-> P,
                data |-> dat, current |-> lp]>>
             \o LogpdfCalls(slf, j + 1, [i \in Rows |-> LAdd(lp[i], add[i])], P, dat)

\* MixtureModel.ln_prior_arr
MixtureModel_ln_prior_arr(slf, P, dat) ==
    LET lps == [k \in DOMAIN slf.components |->
                    Child_ln_prior_arr(slf.components[k],
                                       get_prefixed(P, slf.components[k]), dat)]
        lp == sum_dim(hstack(lps))
    IN  IF ~lp.ok THEN lp ELSE Ok(LogpdfLoop(slf, 1, lp.val, P, dat))

MixtureModel_ln_prior_arr_calls(slf, P, dat) ==
    LET lps == [k \in DOMAIN slf.components |->
                    Child_ln_prior_arr(slf.components[k],
                                       get_prefixed(P, slf.components[k]), dat)]
        lp == sum_dim(hstack(lps))
    IN  ChildCalls(slf, "ln_prior_arr", P, dat)
        \o (IF ~lp.ok THEN <<>> ELSE LogpdfCalls(slf, 1, lp.val, P, dat))

\* The forward output of a child network: shape (0,) for a parameter-less
\* child, else an (N, width) array given by its rows
EmptyOutput == [shape |-> <<0>>, rows |-> <<>>]
Output(rows) == [shape |-> <<NRows, Len(rows[1])>>, rows |-> rows]

\* xp.concatenate(xs, axis=1); an empty list is rejected
concatenate(xs) ==
    IF xs = <<>> THEN Raise("ValueError")
    ELSE Ok([i \in Rows |-> Concat([k \in DOMAIN xs |-> xs[k].rows[i]])])

\* The plugin loop of __call__ over priors[j..], from running array x
RECURSIVE CallLoop(_, _, _, _)
CallLoop(slf, j, x, batch) ==
    IF j > Len(slf.priors) THEN Ok(x)
    ELSE LET y == BoundedHardThreshold_call(slf.priors[j], x, batch, slf)
         IN  IF ~y.ok THEN y ELSE CallLoop(slf, j + 1, y.val, batch)

\* The plugin invocations of that loop, each with the running array it receives
RECURSIVE CallCalls(_, _, _, _)
CallCalls(slf, j, x, batch) ==
    IF j > Len(slf.priors) THEN <<>>
    ELSE LET y == BoundedHardThreshold_call(slf.priors[j], x, batch, slf)
         IN  <<[callee |-> slf.priors[j], method |-> "__call__", nn |-> x,
                data |-> batch]>>
             \o (IF ~y.ok THEN <<>> ELSE CallCalls(slf, j + 1, y.val, batch))

RECURSIVE Reverse(_)
Reverse(s) == IF s = <<>> THEN <<>> ELSE Reverse(Tail(s)) \o <<Head(s)>>

\* Mutant of KeptOutputs: the kept outputs in reverse declaration order
KeptOutputs_reversed(slf, net) ==
    Reverse(SelectSeq([k \in DOMAIN slf.components |-> net[slf.components[k]]],
                      LAMBDA y : y.shape # <<0>>))

\* The children's outputs that __call__ keeps: those whose shape is not (0,)
KeptOutputs(slf, net) ==
    SelectSeq([k \in DOMAIN slf.components |-> net[slf.components[k]]],
              LAMBDA y : y.shape # <<0>>)

\* MixtureModel.__call__(*args), args[0] the input batch, net the children's
\* networks evaluated on args
MixtureModel_call(slf, batch, net) ==
    LET x == concatenate(KeptOutputs(slf, net))
    IN  IF ~x.ok THEN x ELSE CallLoop(slf, 1, x.val, batch)

MixtureModel_call_calls(slf, batch, net) ==
    LET x == concatenate(KeptOutputs(slf, net))
    IN  [k \in DOMAIN slf.components |->
            [callee |-> slf.components[k], method |-> "__call__", data |-> batch]]
        \o (IF ~x.ok THEN <<>> ELSE CallCalls(slf, 1, x.val, batch))

\* The objects left by the plugin loop of __call__ over priors[j..]: every
\* plugin is handed the running array x (here "nn"), args[0] and self, and x is
\* rebound to the array it returns
RECURSIVE CallLoopStore(_, _)
CallLoopStore(j, s) ==
    IF j > Len(s["self"].priors) THEN s
    ELSE LET r == BoundedHardThreshold_call_store(s["self"].priors[j], s,
                                                  "nn", "data", "self")
         IN  IF ~r.ret.ok THEN r.store
             ELSE CallLoopStore(j + 1, [r.store EXCEPT !["nn"] = r.store[r.ret.val]])

\* The objects left by MixtureModel.__call__: self, args[0] and the running
\* array
MixtureModel_call_store(slf, batch, net) ==
    LET x == concatenate(KeptOutputs(slf, net))
    IN  IF ~x.ok THEN Store(slf, <<>>, batch, <<>>)
        ELSE CallLoopStore(1, Store(slf, <<>>, batch, x.val))

-----------------------------------------------------------------------------
(* Mixture specification *)

Range(s) == {s[k] : k \in DOMAIN s}

\* The ordered name -> component mappings: injective sequences of names
ComponentSeqs ==
    {c \in UNION {[1..n -> CompNames] : n \in 1..Cardinality(CompNames)} :
        \A a, b \in DOMAIN c : a # b => c[a] # c[b]}

PriorA == BoundedHardThreshold(<<1, 2>>, "phi1", MinusInf, Fin(1))
PriorB == BoundedHardThreshold(<<3, 4>>, "phi1", Fin(2), PlusInf)

PriorC == BoundedHardThreshold(<<1, 2>>, "phi1", Fin(1), Fin(2))

PriorSeqs ==
    {<<>>, <<PriorA>>, <<PriorB>>, <<PriorC>>, <<PriorA, PriorB>>, <<PriorB, PriorA>>}

\* Values of weights and network outputs, and of the coordinate phi1
WVals == {<<1, 4>>, <<1, 2>>}
NVals == {<<1, 4>>, <<5, 8>>}
XVals == {0, 2}

\* Values handed to a plugin called on its own: weights and stream-weight
\* outputs below, at and above the thresholds; coordinates below, at and above
\* the bounds
PVals == {<<1, 4>>, <<1, 2>>, <<3, 4>>}
PXVals == {0, 1, 2}

ConstArrays(S) == {[i \in Rows |-> v] : v \in S}

MixtureParams(sw, bw, tw) ==
    [k \in {ChildWeightKey("stream"), ChildWeightKey("background"), WeightKey} |->
        IF k = WeightKey THEN tw
        ELSE IF k = ChildWeightKey("stream") THEN sw ELSE bw]

Idle ==
    /\ op = "idle"
    /\ mpars = <<>>
    /\ data = <<>>
    /\ kwargs = <<>>
    /\ result = Ok(<<>>)
    /\ trace = <<>>

InitMixture ==
    /\ \E c \in ComponentSeqs, p \in PriorSeqs :
          self = [components |-> c, priors |-> p, param_names |-> ParamNamesFlat(c)]
    /\ Idle

LnLikelihoodArr ==
    /\ op = "idle"
    /\ \E sw \in [Rows -> WVals], bw \in [Rows -> WVals], x \in [Rows -> XVals] :
          /\ mpars' = MixtureParams(sw, bw, [i \in Rows |-> <<1, 2>>])
          /\ data' = [phi1 |-> x]
    /\ kwargs' = <<>>
    /\ op' = "ln_likelihood_arr"
    /\ result' = MixtureModel_ln_likelihood_arr(self, mpars', data')
    /\ trace' = ChildCalls(self, "ln_likelihood_arr", mpars', data')
    /\ UNCHANGED self

LnPriorArr ==
    /\ op = "idle"
    /\ \E sw \in ConstArrays(WVals), bw \in ConstArrays(WVals),
          tw \in [Rows -> NVals], x \in [Rows -> XVals] :
          /\ mpars' = MixtureParams(sw, bw, tw)
          /\ data' = [phi1 |-> x]
    /\ kwargs' = <<>>
    /\ op' = "ln_prior_arr"
    /\ result' = MixtureModel_ln_prior_arr(self, mpars', data')
    /\ trace' = MixtureModel_ln_prior_arr_calls(self, mpars', data')
    /\ UNCHANGED self

Forward ==
    /\ op = "idle"
    /\ \E ns \in [Rows -> NVals], nb \in [Rows -> NVals], x \in [Rows -> XVals] :
          LET net == [n \in Range(self.components) |->
                        IF n = "aux" THEN EmptyOutput
                        ELSE IF n = "stream" THEN Output([i \in Rows |-> <<ns[i]>>])
                        ELSE Output([i \in Rows |-> <<nb[i]>>])]
              batch == [phi1 |-> x]
              s == MixtureModel_call_store(self, batch, net)
          IN  /\ kwargs' = [net |-> net, args |-> batch]
              /\ self' = s["self"]
              /\ data' = s["data"]
              /\ result' = MixtureModel_call(self, batch, net)
              /\ trace' = MixtureModel_call_calls(self, batch, net)
    /\ mpars' = <<>>
    /\ op' = "__call__"

\* prior.logpdf(pars, data, model) of a registered plugin, model the mixture
PriorLogpdf ==
    /\ op = "idle"
    /\ \E j \in DOMAIN self.priors, w \in [Rows -> PVals], x \in [Rows -> PXVals] :
          LET s0 == Store(self, [i \in Rows |-> Lin(w[i])], [phi1 |-> x], <<>>)
              r == BoundedHardThreshold_logpdf_store(self.priors[j], s0,
                                                     "weight", "data", "self")
          IN  /\ kwargs' = [prior |-> self.priors[j], args |-> s0, store |-> r.store]
              /\ self' = r.store["self"]
              /\ mpars' = [k \in {WeightKey} |-> r.store["weight"]]
              /\ data' = r.store["data"]
              /\ result' = IF r.ret.ok THEN Ok(r.store[r.ret.val]) ELSE r.ret
    /\ op' = "prior.logpdf"
    /\ trace' = <<>>

\* The forward array handed to a plugin: one column per declared parameter
ForwardArray(param_names, ns, nb) ==
    [i \in Rows |->
        [c \in DOMAIN param_names |->
            IF param_names[c] = <<"stream", "weight">> THEN ns[i] ELSE nb]]

\* prior(nn, data, model) of a registered plugin, model the mixture; the
\* columns other than the stream weight hold 1/4, below every cutoff
PriorCall ==
    /\ op = "idle"
    /\ \E j \in DOMAIN self.priors, ns \in [Rows -> PVals], x \in [Rows -> PXVals] :
          LET s0 == Store(self, <<>>, [phi1 |-> x],
                          ForwardArray(self.param_names, ns, <<1, 4>>))
              r == BoundedHardThreshold_call_store(self.priors[j], s0,
                                                   "nn", "data", "self")
          IN  /\ kwargs' = [prior |-> self.priors[j], args |-> s0, store |-> r.store]
              /\ self' = r.store["self"]
              /\ data' = r.store["data"]
              /\ result' = IF r.ret.ok THEN Ok(r.store[r.ret.val]) ELSE r.ret
    /\ mpars' = <<>>
    /\ op' = "prior.__call__"
    /\ trace' = <<>>

\* The call returns to its caller; the instance is ready for the next call
Return ==
    /\ op # "idle"
    /\ op' = "idle"
    /\ mpars' = <<>>
    /\ data' = <<>>
    /\ kwargs' = <<>>
    /\ result' = Ok(<<>>)
    /\ trace' = <<>>
    /\ UNCHANGED self

NextMixture ==
    LnLikelihoodArr \/ LnPriorArr \/ Forward \/ PriorLogpdf \/ PriorCall \/ Return

SpecMixture == InitMixture /\ [][NextMixture]_vars

-----------------------------------------------------------------------------
(* Claims about the mixture *)

\* The parameter slice a child must receive: its own weight under the
\* stripped key, nothing else
OwnSlice(name) ==
    IF ChildParamNames(name) = <<>> THEN <<>>
    ELSE [k \in {WeightKey} |-> mpars[ChildWeightKey(name)]]

\* The likelihood (linear domain) of child k at row i, from the arguments the
\* mixture handed to it
TracedChildLikelihood(k, i) ==
    Exp(Child_ln_likelihood_arr(trace[k].callee, trace[k].pars, trace[k].data)[i])

\* C1: ln_likelihood_arr evaluates each child, in declaration order, on its
\* get_prefixed slice and the shared data, and returns one value per row whose
\* exponential is the sum over the K children of their likelihoods at that
\* row, i.e. the log-sum-exp of the children's log-likelihoods.
C1_LnLikelihoodIsLogSumExp ==
    op = "ln_likelihood_arr" =>
        /\ result.ok
        /\ DOMAIN result.val = Rows
        /\ Len(trace) = Len(self.components)
        /\ \A k \in DOMAIN self.components :
              /\ trace[k].callee = self.components[k]
              /\ trace[k].pars = OwnSlice(self.components[k])
              /\ trace[k].data = data
        /\ \A i \in Rows :
              /\ Exp(result.val[i]) =
                    RSumSeq([k \in DOMAIN self.components |-> TracedChildLikelihood(k, i)])
              /\ result.val[i] = Log(Exp(result.val[i]))

\* Witness of C1: stream and background with log-likelihoods log(1/2) and
\* log(1/4) at row 1 combine to log(3/4)
C1_Witness ==
    /\ op = "ln_likelihood_arr"
    /\ self.components = <<"stream", "background">>
    /\ TracedChildLikelihood(1, 1) = <<1, 2>>
    /\ TracedChildLikelihood(2, 1) = <<1, 4>>
    /\ result.ok
    /\ result.val[1] = Ln(<<3, 4>>)

\* The children's log-priors summed along the component axis, per row
BaseLnPrior ==
    [i \in Rows |->
        LSumSeq([k \in DOMAIN self.components |->
            Child_ln_prior_arr(self.components[k], OwnSlice(self.components[k]), data)[i]])]

\* C2 (as claimed): ln_prior_arr returns the children's summed log-priors
\* with every prior plugin applied exactly once, in declaration order, each
\* receiving the running total left by the previous one.
C2_LnPriorFoldsPlugins ==
    op = "ln_prior_arr" =>
        /\ result.ok
        /\ Len(trace) = Len(self.components) + Len(self.priors)
        /\ \A j \in DOMAIN self.priors :
              /\ trace[Len(self.components) + j].callee = self.priors[j]
              /\ trace[Len(self.components) + j].current =
                    LogpdfLoop([self EXCEPT !.priors = SubSeq(self.priors, 1, j - 1)],
                               1, BaseLnPrior, mpars, data)
        /\ result.val = LogpdfLoop(self, 1, BaseLnPrior, mpars, data)

\* The concatenation C3 expects at row i: every child's columns in
\* declaration order, a zero-width child contributing none
ExpectedConcatRow(i) ==
    Concat([k \in DOMAIN self.components |->
        IF kwargs.net[self.components[k]].shape = <<0>> THEN <<>>
        ELSE kwargs.net[self.components[k]].rows[i]])

NonEmptyCount ==
    Cardinality({k \in DOMAIN self.components :
                    kwargs.net[self.components[k]].shape # <<0>>})

\* The array plugin j of __call__ must receive: the concatenation for the
\* first plugin, the previous plugin's return value for the others
ExpectedPluginInput(j) ==
    IF j = 1 THEN [i \in Rows |-> ExpectedConcatRow(i)]
    ELSE BoundedHardThreshold_call(self.priors[j - 1],
                                   trace[Len(self.components) + j - 1].nn, data, self).val

\* C3: __call__ runs every child's forward pass once in registration order,
\* drops the zero-width outputs, concatenates the others column-wise in
\* declaration order and applies the prior plugins as forward transforms in
\* declaration order, each to the running array with the input batch and the
\* mixture (stated for calls in which some child has a non-empty output and
\* the plugins find the stream weight column).
C3_ForwardConcatenatesNonEmpty ==
    op = "__call__" =>
        /\ Len(trace) >= Len(self.components)
        /\ \A k \in DOMAIN self.components :
              /\ trace[k].callee = self.components[k]
              /\ trace[k].method = "__call__"
              /\ trace[k].data = data
        /\ (NonEmptyCount > 0 /\ (self.priors = <<>> \/ "stream" \in Range(self.components))) =>
              /\ result.ok
              /\ Len(trace) = Len(self.components) + Len(self.priors)
              /\ \A j \in DOMAIN self.priors :
                    /\ trace[Len(self.components) + j].callee = self.priors[j]
                    /\ trace[Len(self.components) + j].data = data
                    /\ trace[Len(self.components) + j].nn = ExpectedPluginInput(j)
              /\ result.val = ExpectedPluginInput(Len(self.priors) + 1)
              /\ \A i \in Rows : Len(result.val[i]) = NonEmptyCount

\* Witness of C3: three components, the middle one of zero width; the result
\* holds the two non-empty outputs in declaration order, the stream weight
\* of the row inside PriorB's bounds thresholded to zero
C3_Witness ==
    /\ op = "__call__"
    /\ self.components = <<"background", "aux", "stream">>
    /\ self.priors = <<PriorA, PriorB>>
    /\ result.ok
    /\ kwargs.net["background"].rows[1] = << <<1, 4>> >>
    /\ kwargs.net["stream"].rows[1] = << <<5, 8>> >>
    /\ data["phi1"][1] = 2
    /\ result.val[1] = << <<1, 4>>, <<0, 1>> >>

-----------------------------------------------------------------------------
(* Claims about the declaration orders of the mixture *)

\* The orderings of a sequence of distinct elements
Orderings(seq) ==
    {p \in [DOMAIN seq -> Range(seq)] : Range(p) = Range(seq)}

\* The mixture with the same components declared in the order c
Redeclared(slf, c) ==
    [slf EXCEPT !.components = c, !.param_names = ParamNamesFlat(c)]

\* C13: for every mixture, parameters and data, ln_likelihood_arr returns the
\* same array for every permutation of the declaration order of the
\* components, each component keeping its name and its parameter slice.
C13_LikelihoodOrderInvariant ==
    op = "ln_likelihood_arr" =>
        \A c \in Orderings(self.components) :
            MixtureModel_ln_likelihood_arr(Redeclared(self, c), mpars, data) = result

\* A call on three components two of which differ in likelihood at some row
C13_Witness ==
    /\ op = "ln_likelihood_arr"
    /\ result.ok
    /\ Len(self.components) = 3
    /\ \E i \in Rows : \E a, b \in DOMAIN self.components :
          /\ TracedChildLikelihood(a, i) # TracedChildLikelihood(b, i)
          /\ TracedChildLikelihood(a, i) # RZero
          /\ TracedChildLikelihood(b, i) # RZero

\* The parameters and data ln_prior_arr is called with
LnPriorArgs ==
    {[mpars |-> MixtureParams(sw, bw, tw), data |-> [phi1 |-> x]] :
        sw \in ConstArrays(WVals), bw \in ConstArrays(WVals),
        tw \in [Rows -> NVals], x \in [Rows -> XVals]}

\* Some reordering of the plugins changes the outcome of ln_prior_arr(a)
SensitiveToPluginOrder(slf, a) ==
    \E p \in Orderings(slf.priors) :
        LET r == MixtureModel_ln_prior_arr(slf, a.mpars, a.data)
            q == MixtureModel_ln_prior_arr([slf EXCEPT !.priors = p], a.mpars, a.data)
        IN  r.ok # q.ok \/ r.val # q.val

\* C14 (as claimed): the mixture log-prior is sensitive to the order of the
\* prior plugins: for a mixture with two different threshold plugins there
\* are parameters and data for which permuting the declared plugin order
\* changes the result of ln_prior_arr.
C14_PriorOrderSensitive ==
    (op = "ln_prior_arr" /\ Len(self.priors) >= 2) =>
        \E a \in LnPriorArgs : SensitiveToPluginOrder(self, a)

-----------------------------------------------------------------------------
(* Claims about the prior plugin called on its own *)

\* The arguments of the plugin call in progress, as they were handed in
ArgCoord(i) == kwargs.args["data"][kwargs.prior.coord_name][i]
ArgWeight(i) == kwargs.args["weight"][i].q

\* lower <= data[coord_name][i] <= upper, for the plugin of the call in progress
InBoundRegion(i) ==
    /\ kwargs.prior.lower.inf = 0 => kwargs.prior.lower.v <= ArgCoord(i)
    /\ kwargs.prior.upper.inf = 0 => ArgCoord(i) <= kwargs.prior.upper.v
    /\ kwargs.prior.lower.inf # 1
    /\ kwargs.prior.upper.inf # -1

\* p < q, p = q for rationals with positive denominators
Below(p, q) == p[1] * q[2] < q[1] * p[2]
Equal(p, q) == p[1] * q[2] = q[1] * p[2]

\* C11: BoundedHardThreshold.logpdf returns, for every row, -inf when the named
\* coordinate lies within [lower, upper] and the weight is below the threshold,
\* and 0 for every other row (so a weight just below the threshold inside the
\* region gives -inf, a weight at or above it gives 0).
C11_LogpdfExcludesBelowThreshold ==
    op = "prior.logpdf" =>
        /\ result.ok
        /\ DOMAIN result.val = Rows
        /\ \A i \in Rows :
              result.val[i] =
                  IF InBoundRegion(i) /\ Below(ArgWeight(i), kwargs.prior.threshold)
                  THEN NegInf ELSE LZero

\* A logpdf call with a row inside the region below the threshold and a row
\* inside the region above it
C11_Witness ==
    /\ op = "prior.logpdf"
    /\ result.ok
    /\ \E i, k \in Rows :
          /\ InBoundRegion(i) /\ InBoundRegion(k)
          /\ Below(ArgWeight(i), kwargs.prior.threshold)
          /\ Below(kwargs.prior.threshold, ArgWeight(k))
          /\ result.val[i] = NegInf
          /\ result.val[k] = LZero

\* The forward array handed to the plugin call in progress, the column of the
\* stream weight in the model's parameter-name index (0 when absent), and the
\* rows the thresholding applies to
ArgNN == kwargs.args["nn"]
StreamWeightColumn == Index(kwargs.args["self"].param_names, <<"stream", "weight">>)
ThresholdedRow(i) == InBoundRegion(i) \/ \A k \in Rows : ~InBoundRegion(k)

\* C12 (as stated): __call__ changes only the stream-weight column, located by
\* name in the model's parameter-name index: in the rows inside the bound
\* region (all rows if none is inside) the values of that column below the
\* cutoff become zero and all other values pass through; every other entry is
\* the input's, and the input array is not modified.
C12_CallZeroesBelowCutoff ==
    (op = "prior.__call__" /\ StreamWeightColumn # 0) =>
        /\ result.ok
        /\ \A i \in Rows : \A c \in DOMAIN ArgNN[i] :
              result.val[i][c] =
                  IF /\ c = StreamWeightColumn
                     /\ ThresholdedRow(i)
                     /\ Below(ArgNN[i][c], kwargs.prior.threshold)
                  THEN RZero ELSE ArgNN[i][c]
        /\ kwargs.store["nn"] = ArgNN

\* C12 (amended): as stated, with the values at or below the cutoff becoming
\* zero (only values strictly above it pass through); when the index holds no
\* stream weight the lookup raises and no array is written.
C12_CallZeroesAtOrBelowCutoff ==
    op = "prior.__call__" =>
        /\ StreamWeightColumn # 0 =>
              /\ result.ok
              /\ DOMAIN result.val = Rows
              /\ \A i \in Rows :
                    /\ DOMAIN result.val[i] = DOMAIN ArgNN[i]
                    /\ \A c \in DOMAIN ArgNN[i] :
                          result.val[i][c] =
                              IF /\ c = StreamWeightColumn
                                 /\ ThresholdedRow(i)
                                 /\ ~Below(kwargs.prior.threshold, ArgNN[i][c])
                              THEN RZero ELSE ArgNN[i][c]
        /\ StreamWeightColumn = 0 => result = Raise("ValueError")
        /\ kwargs.store["nn"] = ArgNN

\* A call on a two-column model with a row inside the region whose stream
\* weight equals the cutoff and is zeroed, and a row outside the region whose
\* stream weight is below the cutoff and kept
C12_Witness ==
    /\ op = "prior.__call__"
    /\ result.ok
    /\ Len(kwargs.args["self"].param_names) = 2
    /\ \E i, k \in Rows :
          /\ InBoundRegion(i) /\ ~InBoundRegion(k)
          /\ Equal(ArgNN[i][StreamWeightColumn], kwargs.prior.threshold)
          /\ Below(ArgNN[k][StreamWeightColumn], kwargs.prior.threshold)
          /\ result.val[i][StreamWeightColumn] = RZero
          /\ result.val[k] = ArgNN[k]

\* C15: after construction no evaluation of the mixture (ln_likelihood_arr,
\* ln_prior_arr, __call__) and no plugin call (logpdf, __call__) writes to the
\* model instance: components, plugin sequence and parameter metadata are the
\* same before and after every call of every sequence of calls, and the
\* caller's parameter array and data are as they were handed in.
C15_EvaluationWritesNothingShared ==
    [][/\ self' = self
       /\ op' = "__call__" => data' = kwargs'.args
       /\ op' \in {"prior.logpdf", "prior.__call__"} =>
             /\ kwargs'.store["self"] = self
             /\ kwargs'.store["weight"] = kwargs'.args["weight"]
             /\ kwargs'.store["data"] = kwargs'.args["data"]
             /\ data' = kwargs'.args["data"]]_vars

\* A logpdf call that wrote -inf into the array it returns and a forward call
\* whose plugins changed the running array leave the arguments as handed in
C15_Witness ==
    \/ /\ op = "prior.logpdf"
       /\ \E i \in Rows : result.val[i] = NegInf
       /\ kwargs.store["weight"] = kwargs.args["weight"]
       /\ kwargs.store["self"] = self
    \/ /\ op = "__call__"
       /\ Len(self.priors) = 2
       /\ result.ok
       /\ result.val # concatenate(KeptOutputs(self, kwargs.net)).val
       /\ data = kwargs.args

-----------------------------------------------------------------------------
(* Probability protocols (core/_core/likelihood_api.py)                     *)
(*                                                                         *)
(* The three abstract operations are supplied by a concrete leaf model:    *)
(* the uniform leaf above, named slf.name, with parameters {weight}.       *)

\* The optional keyword argument `where`
None == [given |-> FALSE, mask |-> <<>>]
Where(mask) == [given |-> TRUE, mask |-> mask]

\* LnProbabilities.ln_likelihood of the leaf: evaluated on all rows when
\* `where` is omitted, else on the rows it selects (0 elsewhere)
ln_likelihood(slf, P, dat, where) ==
    [i \in Rows |->
        IF where.given /\ ~where.mask[i] THEN LZero
        ELSE Child_ln_likelihood_arr(slf.name, P, dat)[i]]

\* LnProbabilities.ln_prior of the leaf
ln_prior(slf, P, dat) == Child_ln_prior_arr(slf.name, P, dat)

\* LnProbabilities.ln_evidence of the leaf: a finite function of the data
ln_evidence(slf, dat) ==
    [i \in Rows |-> IF dat["phi1"][i] = 0 THEN Ln(<<1, 2>>) ELSE Ln(<<1, 4>>)]

\* Mutant of ln_posterior: the `where` argument is not passed on
ln_posterior_drops_where(slf, P, dat, where) ==
    [i \in Rows |->
        LSub(LAdd(ln_likelihood(slf, P, dat, None)[i], ln_prior(slf, P, dat)[i]),
             ln_evidence(slf, dat)[i])]

\* LnProbabilities.ln_posterior
ln_posterior(slf, P, dat, where) ==
    [i \in Rows |->
        LSub(LAdd(ln_likelihood(slf, P, dat, where)[i], ln_prior(slf, P, dat)[i]),
             ln_evidence(slf, dat)[i])]

\* xp.sum of an array of log-domain numbers
xp_sum(arr) == LSumSeq(arr)

\* xp.exp of an array
xp_exp(arr) == [i \in DOMAIN arr |-> Exp(arr[i])]

\* TotalLnProbabilities
ln_likelihood_tot(slf, P, dat, where) == xp_sum(ln_likelihood(slf, P, dat, where))
ln_prior_tot(slf, P, dat) == xp_sum(ln_prior(slf, P, dat))
ln_evidence_tot(slf, dat) == xp_sum(ln_evidence(slf, dat))
ln_posterior_tot(slf, P, dat, where) == xp_sum(ln_posterior(slf, P, dat, where))

\* Mutant of likelihood: the `where` argument is not passed on
likelihood_of_all_rows(slf, P, dat, where) == xp_exp(ln_likelihood(slf, P, dat, None))

\* Probabilities
likelihood(slf, P, dat, where) == xp_exp(ln_likelihood(slf, P, dat, where))
prior(slf, P, dat) == xp_exp(ln_prior(slf, P, dat))
evidence(slf, dat) == xp_exp(ln_evidence(slf, dat))
posterior(slf, P, dat, where) == xp_exp(ln_posterior(slf, P, dat, where))

\* Mutant of posterior_tot: the sum of the elementwise posteriors
posterior_tot_as_sum(slf, P, dat, where) == RSumSeq(posterior(slf, P, dat, where))

\* TotalProbabilities
likelihood_tot(slf, P, dat, where) == Exp(ln_likelihood_tot(slf, P, dat, where))
prior_tot(slf, P, dat) == Exp(ln_prior_tot(slf, P, dat))
evidence_tot(slf, dat) == Exp(ln_evidence_tot(slf, dat))
posterior_tot(slf, P, dat, where) == Exp(ln_posterior_tot(slf, P, dat, where))

-----------------------------------------------------------------------------
(* Probability specification: calls of the derived methods on a leaf *)

LeafParams(w) == [k \in {WeightKey} |-> w]

WhereArgs == {None} \cup {Where(m) : m \in [Rows -> BOOLEAN]}

InitProbabilities ==
    /\ \E n \in CompNames : self = [name |-> n]
    /\ Idle

\* Method lookup on the model instance
MethodMparsDataWhere(name, slf, P, dat, where) ==
    CASE name = "ln_posterior"      -> ln_posterior(slf, P, dat, where)
      [] name = "ln_likelihood_tot" -> ln_likelihood_tot(slf, P, dat, where)
      [] name = "ln_posterior_tot"  -> ln_posterior_tot(slf, P, dat, where)
      [] name = "likelihood"        -> likelihood(slf, P, dat, where)
      [] name = "posterior"         -> posterior(slf, P, dat, where)
      [] name = "likelihood_tot"    -> likelihood_tot(slf, P, dat, where)
      [] name = "posterior_tot"     -> posterior_tot(slf, P, dat, where)

MethodMparsData(name, slf, P, dat) ==
    CASE name = "ln_prior_tot" -> ln_prior_tot(slf, P, dat)
      [] name = "prior"        -> prior(slf, P, dat)
      [] name = "prior_tot"    -> prior_tot(slf, P, dat)

MethodData(name, slf, dat) ==
    CASE name = "ln_evidence_tot" -> ln_evidence_tot(slf, dat)
      [] name = "evidence"        -> evidence(slf, dat)
      [] name = "evidence_tot"    -> evidence_tot(slf, dat)

\* A call method(mpars, data, where=...)
CallMparsDataWhere(name) ==
    /\ op = "idle"
    /\ \E w \in [Rows -> WVals], x \in [Rows -> XVals], wh \in WhereArgs :
          /\ mpars' = LeafParams(w)
          /\ data' = [phi1 |-> x]
          /\ kwargs' = [where |-> wh]
    /\ op' = name
    /\ result' = Ok(MethodMparsDataWhere(name, self, mpars', data', kwargs'.where))
    /\ trace' = <<>>
    /\ UNCHANGED self

\* A call method(mpars, data)
CallMparsData(name) ==
    /\ op = "idle"
    /\ \E w \in [Rows -> WVals], x \in [Rows -> XVals] :
          /\ mpars' = LeafParams(w)
          /\ data' = [phi1 |-> x]
    /\ kwargs' = <<>>
    /\ op' = name
    /\ result' = Ok(MethodMparsData(name, self, mpars', data'))
    /\ trace' = <<>>
    /\ UNCHANGED self

\* A call method(data)
CallData(name) ==
    /\ op = "idle"
    /\ \E x \in [Rows -> XVals] : data' = [phi1 |-> x]
    /\ mpars' = <<>>
    /\ kwargs' = <<>>
    /\ op' = name
    /\ result' = Ok(MethodData(name, self, data'))
    /\ trace' = <<>>
    /\ UNCHANGED self

LnPosterior     == CallMparsDataWhere("ln_posterior")
LnLikelihoodTot == CallMparsDataWhere("ln_likelihood_tot")
LnPriorTot      == CallMparsData("ln_prior_tot")
LnEvidenceTot   == CallData("ln_evidence_tot")
LnPosteriorTot  == CallMparsDataWhere("ln_posterior_tot")
Likelihood      == CallMparsDataWhere("likelihood")
Prior           == CallMparsData("prior")
Evidence        == CallData("evidence")
Posterior       == CallMparsDataWhere("posterior")
LikelihoodTot   == CallMparsDataWhere("likelihood_tot")
PriorTot        == CallMparsData("prior_tot")
EvidenceTot     == CallData("evidence_tot")
PosteriorTot    == CallMparsDataWhere("posterior_tot")

NextProbabilities ==
    \/ LnPosterior
    \/ LnLikelihoodTot
    \/ LnPriorTot
    \/ LnEvidenceTot
    \/ LnPosteriorTot
    \/ Likelihood
    \/ Prior
    \/ Evidence
    \/ Posterior
    \/ LikelihoodTot
    \/ PriorTot
    \/ EvidenceTot
    \/ PosteriorTot
    \/ Return

SpecProbabilities == InitProbabilities /\ [][NextProbabilities]_vars

-----------------------------------------------------------------------------
(* Claims about the probability protocols *)

RECURSIVE RProdSeq(_)
RProdSeq(s) == IF s = <<>> THEN ROne ELSE RMul(Head(s), RProdSeq(Tail(s)))

LnTotalOps == {"ln_likelihood_tot", "ln_prior_tot", "ln_evidence_tot", "ln_posterior_tot"}
TotalOps == {"likelihood_tot", "prior_tot", "evidence_tot", "posterior_tot"}
DirectOps == {"likelihood", "prior", "evidence", "posterior"}

\* The elementwise log quantity a method of the protocol is derived from,
\* on the arguments of the current call
ElementwiseLn ==
    CASE op \in {"ln_likelihood_tot", "likelihood", "likelihood_tot"} ->
            ln_likelihood(self, mpars, data, kwargs.where)
      [] op \in {"ln_prior_tot", "prior", "prior_tot"} -> ln_prior(self, mpars, data)
      [] op \in {"ln_evidence_tot", "evidence", "evidence_tot"} -> ln_evidence(self, data)
      [] op \in {"ln_posterior_tot", "posterior", "posterior_tot"} ->
            ln_posterior(self, mpars, data, kwargs.where)

\* The elementwise direct quantity of the current call's arguments
ElementwiseDirect == [i \in Rows |-> Exp(ElementwiseLn[i])]

\* C4 (as claimed): every total quantity, log or direct, is the sum over the
\* rows of the corresponding elementwise quantity.
C4_TotalIsSumOfElementwise ==
    /\ op \in LnTotalOps => result.val = LSumSeq(ElementwiseLn)
    /\ op \in TotalOps => result.val = RSumSeq(ElementwiseDirect)

\* C4 (amended): each total log quantity is the sum over the rows of the
\* elementwise log quantity; each direct total is the exponential of the log
\* total, i.e. the product over the rows of the elementwise direct quantity.
C4_TotalsAmended ==
    /\ op \in LnTotalOps => result.ok /\ result.val = LSumSeq(ElementwiseLn)
    /\ op \in TotalOps =>
          /\ result.ok
          /\ result.val = RProdSeq(ElementwiseDirect)
          /\ result.val = Exp(LSumSeq(ElementwiseLn))

\* Witness of C4: a total posterior that is the product, and not the sum, of
\* the elementwise posteriors evaluated under a `where` mask
C4_Witness ==
    /\ op = "posterior_tot"
    /\ kwargs.where.given
    /\ \E i \in Rows : ~kwargs.where.mask[i]
    /\ result.val # RZero
    /\ result.val = RProdSeq(ElementwiseDirect)
    /\ result.val # RSumSeq(ElementwiseDirect)

\* C5: each direct elementwise quantity is the elementwise exponential of its
\* log counterpart on the same arguments: its logarithm is that log quantity,
\* row by row.
C5_DirectIsExpOfLn ==
    op \in DirectOps =>
        /\ result.ok
        /\ DOMAIN result.val = Rows
        /\ \A i \in Rows : Log(result.val[i]) = ElementwiseLn[i]

\* Witness of C5: a likelihood evaluated under a mask that excludes a row in
\* which the model's likelihood is not 1
C5_Witness ==
    /\ op = "likelihood"
    /\ kwargs.where.given
    /\ \E i \in Rows :
          /\ ~kwargs.where.mask[i]
          /\ ln_likelihood(self, mpars, data, None)[i] # LZero
          /\ result.val[i] = ROne
    /\ \E i \in Rows : result.val[i] = <<1, 4>>

\* C6: the default ln_posterior is, row by row, ln_likelihood(where=w) +
\* ln_prior - ln_evidence (in the linear domain: posterior * evidence =
\* likelihood * prior); with `where` omitted the likelihood is that of all rows.
C6_LnPosteriorIsBayes ==
    op = "ln_posterior" =>
        /\ result.ok
        /\ DOMAIN result.val = Rows
        /\ \A i \in Rows :
              /\ result.val[i].t # "nan"
              /\ RMul(Exp(result.val[i]), Exp(ln_evidence(self, data)[i])) =
                    RMul(Exp(ln_likelihood(self, mpars, data, kwargs.where)[i]),
                         Exp(ln_prior(self, mpars, data)[i]))
        /\ ~kwargs.where.given =>
              result.val = ln_posterior(self, mpars, data, Where([i \in Rows |-> TRUE]))

\* Witness of C6: a finite posterior under a mask that excludes a row in which
\* the likelihood is not 1
C6_Witness ==
    /\ op = "ln_posterior"
    /\ kwargs.where.given
    /\ \E i \in Rows :
          /\ ~kwargs.where.mask[i]
          /\ ln_likelihood(self, mpars, data, None)[i] # LZero
          /\ result.val[i].t = "ln"
    /\ \E i \in Rows : kwargs.where.mask[i] /\ result.val[i].t = "ln"

-----------------------------------------------------------------------------
(* Exponential background model (core/builtin/_exponential.py) *)

RSub(p, q) == RAdd(p, <<-q[1], q[2]>>)

RECURSIVE IntPow2(_)
IntPow2(n) == IF n = 0 THEN 1 ELSE 2 * IntPow2(n - 1)

\* exp(n) for an integer n (base 2)
ExpInt(n) == IF n >= 0 THEN <<IntPow2(n), 1>> ELSE <<1, IntPow2(-n)>>

\* _stats.exponential.logpdf: log of m e^{-m (x - a)} / (1 - e^{-m (b - a)})
\* for x in [a, b], nil otherwise (called for non-zero m only)
exponential_logpdf(x, m, a, b, nil) ==
    IF a <= x /\ x <= b
    THEN Log(RMul(RMul(<<m, 1>>, ExpInt(-m * (x - a))),
                  RInv(RSub(ROne, ExpInt(-m * (b - a))))))
    ELSE nil

\* The key (k, "slope") of the slope of coordinate k
SlopeKey(k) == << <<k>>, "slope" >>

\* ModelParameters.flatskeys: the (coordinate, parameter) keys declared
flatskeys(params) == {<< <<k>>, q >> : k \in DOMAIN params, q \in {"slope"}}

\* Exponential.__post_init__: the bounds of the coordinates k of coord_bounds
\* with k in self.params, in the order of coord_bounds
PostInitA(coord_names, coord_bounds, params) ==
    LET kept == SelectSeq(coord_names, LAMBDA k : k \in DOMAIN params)
    IN  [j \in DOMAIN kept |-> coord_bounds[kept[j]][1]]

PostInitB(coord_names, coord_bounds, params) ==
    LET kept == SelectSeq(coord_names, LAMBDA k : k \in DOMAIN params)
    IN  [j \in DOMAIN kept |-> coord_bounds[kept[j]][2]]

\* The dataclass instance after __post_init__
Exponential(coord_names, coord_bounds, params, require_mask, coord_err_names) ==
    LET a == PostInitA(coord_names, coord_bounds, params)
        b == PostInitB(coord_names, coord_bounds, params)
    IN  [coord_names |-> coord_names, coord_bounds |-> coord_bounds,
         params |-> params, require_mask |-> require_mask,
         coord_err_names |-> coord_err_names,
         a |-> a, b |-> b, bma |-> [j \in DOMAIN a |-> b[j] - a[j]]]

\* zero + v for zero of shape (N, F) and v of shape (1, F'): every row of the
\* broadcast, or a shape error when F' is neither F nor 1
Broadcast(v, F) ==
    IF Len(v) = F THEN Ok(v)
    ELSE IF Len(v) = 1 THEN Ok([c \in 1..F |-> v[1]])
    ELSE Raise("ShapeError")

\* Mutant of Indicator: without a mask no datum counts as available
Indicator_zeros_without_mask(slf, dat, mask) ==
    IF mask.given
    THEN Ok([i \in Rows |-> [c \in DOMAIN slf.coord_names |->
                IF mask.mask[slf.coord_names[c]][i] THEN 1 ELSE 0]])
    ELSE IF slf.require_mask THEN Raise("ValueError")
    ELSE Ok([i \in Rows |-> [c \in DOMAIN slf.coord_names |-> 0]])

\* The indicator of available data, as 0/1 per row and coordinate
Indicator(slf, dat, mask) ==
    IF mask.given
    THEN Ok([i \in Rows |-> [c \in DOMAIN slf.coord_names |->
                IF mask.mask[slf.coord_names[c]][i] THEN 1 ELSE 0]])
    ELSE IF slf.require_mask THEN Raise("ValueError")
    ELSE Ok([i \in Rows |-> [c \in DOMAIN slf.coord_names |-> 1]])

\* ms: the slopes stacked per coordinate, zeros for an undeclared slope
Slopes(slf, P) ==
    [i \in Rows |-> [c \in DOMAIN slf.coord_names |->
        IF SlopeKey(slf.coord_names[c]) \in flatskeys(slf.params)
        THEN P[SlopeKey(slf.coord_names[c])][i] ELSE 0]]

\* lnliks: the per-coordinate log-likelihoods of the error-free branch
LnLiks(slf, P, dat) ==
    LET F == Len(slf.coord_names)
        ms == Slopes(slf, P)
        a == Broadcast(slf.a, F)
        b == Broadcast(slf.b, F)
        bma == Broadcast(slf.bma, F)
    IN  IF ~bma.ok THEN bma
        ELSE Ok([i \in Rows |-> [c \in 1..F |->
                IF ms[i][c] = 0
                THEN LNeg(Log(Rat(bma.val[c], 1)))
                ELSE exponential_logpdf(dat[slf.coord_names[c]][i], ms[i][c],
                                        a.val[c], b.val[c], NegInf)]])

\* Mutant of Exponential.ln_likelihood: the measurement errors are looked at
\* before the mask
Exponential_ln_likelihood_errors_first(slf, P, dat, mask) ==
    LET indicator == Indicator(slf, dat, mask)
        lnliks == LnLiks(slf, P, dat)
    IN  IF slf.coord_err_names.given THEN Raise("NotImplementedError")
        ELSE IF ~indicator.ok THEN indicator
        ELSE IF ~lnliks.ok THEN lnliks
        ELSE Ok([i \in Rows |->
                LSumSeq([c \in DOMAIN slf.coord_names |->
                    LTimes(indicator.val[i][c], lnliks.val[i][c])])])

\* Exponential.ln_likelihood(mpars, data, mask=...)
Exponential_ln_likelihood(slf, P, dat, mask) ==
    LET indicator == Indicator(slf, dat, mask)
        lnliks == LnLiks(slf, P, dat)
    IN  IF ~indicator.ok THEN indicator
        ELSE IF slf.coord_err_names.given THEN Raise("NotImplementedError")
        ELSE IF ~lnliks.ok THEN lnliks
        ELSE Ok([i \in Rows |->
                LSumSeq([c \in DOMAIN slf.coord_names |->
                    LTimes(indicator.val[i][c], lnliks.val[i][c])])])

-----------------------------------------------------------------------------
(* Exponential specification *)

CoordBounds == [phi2 |-> <<0, 2>>, pm |-> <<0, 4>>]

CoordNameSeqs == {<<"phi2">>, <<"phi2", "pm">>}

ErrNames(coord_names) ==
    [given |-> TRUE, names |-> [c \in DOMAIN coord_names |-> <<coord_names[c], "err">>]]

\* Data values inside and outside both coordinates' bounds; slope values
DVals == {1, 5}
SVals == {0, 1}

\* The masks drawn: every datum available, or all but one
MaskTables(coord_names) ==
    {[k \in Range(coord_names) |-> [i \in Rows |-> ~(k = k0 /\ i = i0)]] :
        k0 \in Range(coord_names) \cup {"none"}, i0 \in Rows}

MaskArgs(coord_names) == {None} \cup {Where(m) : m \in MaskTables(coord_names)}

InitExponential ==
    /\ \E cn \in CoordNameSeqs, rm \in BOOLEAN, err \in BOOLEAN :
          \E decl \in SUBSET Range(cn) :
              self = Exponential(cn, [k \in Range(cn) |-> CoordBounds[k]],
                                 [k \in decl |-> {"slope"}], rm,
                                 IF err THEN ErrNames(cn) ELSE None)
    /\ Idle

ExponentialLnLikelihood ==
    /\ op = "idle"
    /\ \E x \in [Range(self.coord_names) -> [Rows -> DVals]],
          ms \in [DOMAIN self.params -> [Rows -> SVals]],
          mk \in MaskArgs(self.coord_names) :
          /\ data' = x
          /\ mpars' = [k \in {SlopeKey(c) : c \in DOMAIN self.params} |-> ms[k[1][1]]]
          /\ kwargs' = [mask |-> mk]
    /\ op' = "ln_likelihood"
    /\ result' = Exponential_ln_likelihood(self, mpars', data', kwargs'.mask)
    /\ trace' = IF Indicator(self, data', kwargs'.mask).ok /\ ~self.coord_err_names.given
                 THEN [lnliks |-> LnLiks(self, mpars', data')]
                 ELSE <<>>
    /\ UNCHANGED self

NextExponential == ExponentialLnLikelihood \/ Return

SpecExponential == InitExponential /\ [][NextExponential]_vars

-----------------------------------------------------------------------------
(* Claims about the Exponential model *)

\* The slope of coordinate number c at row i of the current call: the
\* supplied value, or 0 when the model declares no slope for the coordinate
SlopeAt(i, c) ==
    IF self.coord_names[c] \in DOMAIN self.params
    THEN mpars[SlopeKey(self.coord_names[c])][i] ELSE 0

LowerOf(c) == self.coord_bounds[self.coord_names[c]][1]
UpperOf(c) == self.coord_bounds[self.coord_names[c]][2]
DatumAt(i, c) == data[self.coord_names[c]][i]

\* The call got past the mask check and the model has no measurement errors
ReachesLikelihood ==
    /\ op = "ln_likelihood"
    /\ ~self.coord_err_names.given
    /\ kwargs.mask.given \/ ~self.require_mask

\* C7 (as claimed): without coordinate errors, a coordinate whose slope is 0
\* in a row (supplied as 0, or not declared) has log-likelihood -log(b - a),
\* for its own bounds [a, b], in every in-bound row, and the exponential
\* log-pdf is used for the entries of non-zero slope only (stated of the
\* calls that get as far as returning an array).
C7_ZeroSlopeIsUniform ==
    (ReachesLikelihood /\ result.ok) =>
        /\ trace.lnliks.ok
        /\ \A i \in Rows, c \in DOMAIN self.coord_names :
              /\ (SlopeAt(i, c) = 0 /\ LowerOf(c) <= DatumAt(i, c)
                                    /\ DatumAt(i, c) <= UpperOf(c)) =>
                    trace.lnliks.val[i][c] = LNeg(Log(Rat(UpperOf(c) - LowerOf(c), 1)))
              /\ SlopeAt(i, c) # 0 =>
                    trace.lnliks.val[i][c] =
                        exponential_logpdf(DatumAt(i, c), SlopeAt(i, c),
                                           LowerOf(c), UpperOf(c), NegInf)

SameOutcome(r, q) == r.ok = q.ok /\ r.val = q.val

AllTrueMask == Where([k \in Range(self.coord_names) |-> [i \in Rows |-> TRUE]])

\* C8: with no mask, ln_likelihood of a model that requires one fails with a
\* value error; of a model that does not, every coordinate of every row
\* counts as available: the outcome is that of an all-True mask, each row the
\* sum of all its per-coordinate log-likelihoods.
C8_MissingMask ==
    (op = "ln_likelihood" /\ ~kwargs.mask.given) =>
        /\ self.require_mask => ~result.ok /\ result.val = "ValueError"
        /\ ~self.require_mask =>
              /\ SameOutcome(result,
                             Exponential_ln_likelihood(self, mpars, data, AllTrueMask))
              /\ result.ok =>
                    \A i \in Rows : result.val[i] = LSumSeq(trace.lnliks.val[i])

\* Witness of C8: a call without a mask on a two-coordinate model that does
\* not require one returns a row that sums two non-zero contributions
C8_Witness ==
    /\ op = "ln_likelihood"
    /\ ~kwargs.mask.given
    /\ ~self.require_mask
    /\ Len(self.coord_names) = 2
    /\ result.ok
    /\ \E i \in Rows :
          /\ \A c \in 1..2 : trace.lnliks.val[i][c] \notin {LZero, NegInf}
          /\ result.val[i].t = "ln"

\* C9 (as claimed): every call on a model that declares measurement errors
\* fails with a not-implemented error.
C9_ErrorsNotImplemented ==
    (op = "ln_likelihood" /\ self.coord_err_names.given) =>
        ~result.ok /\ result.val = "NotImplementedError"

\* C9 (amended): a call on a model that declares measurement errors never
\* returns an array; it fails with the value error of the mask check when
\* the model requires a mask and none is given, and with a not-implemented
\* error otherwise.
C9_ErrorsNeverReturn ==
    (op = "ln_likelihood" /\ self.coord_err_names.given) =>
        /\ ~result.ok
        /\ result.val = IF self.require_mask /\ ~kwargs.mask.given
                        THEN "ValueError" ELSE "NotImplementedError"

\* Witness of C9: both failures; this one is the not-implemented error of a
\* call that supplies the required mask
C9_Witness ==
    /\ op = "ln_likelihood"
    /\ self.coord_err_names.given
    /\ self.require_mask
    /\ kwargs.mask.given
    /\ ~result.ok
    /\ result.val = "NotImplementedError"

\* C10 (as claimed): with a mask, a coordinate marked unavailable in a row
\* contributes exactly zero, whatever its log-likelihood (-inf included): the
\* row's result is the sum over its available coordinates.
C10_MaskedContributesZero ==
    (op = "ln_likelihood" /\ kwargs.mask.given /\ result.ok) =>
        \A i \in Rows :
            result.val[i] =
                LSumSeq([c \in DOMAIN self.coord_names |->
                    IF kwargs.mask.mask[self.coord_names[c]][i]
                    THEN trace.lnliks.val[i][c] ELSE LZero])

-----------------------------------------------------------------------------
(* Data ingestion (core/_connect/data.py) *)

\* An option that was not passed (or passed as None), and one that was
NoOption == [given |-> FALSE, val |-> <<>>]
Option(v) == [given |-> TRUE, val |-> v]
NoFlag == [given |-> FALSE, val |-> FALSE]

\* A numpy array: dtype.names is the tuple of its field names when it is
\* structured (None otherwise); cols gives each field's column
StructuredArray(names, cols) == [structured |-> TRUE, names |-> names, cols |-> cols]
PlainArray == [structured |-> FALSE, names |-> <<>>, cols |-> <<>>]

\* array[list(names)]: the fields listed, in the order listed; a name that is
\* not a field is a KeyError
select_fields(array, names) ==
    IF \E k \in DOMAIN names : names[k] \notin Range(array.names)
    THEN Raise("KeyError")
    ELSE Ok(StructuredArray(names, [n \in Range(names) |-> array.cols[n]]))

\* numpy.lib.recfunctions.structured_to_unstructured: an (N, F) array whose
\* columns are the fields in dtype order
structured_to_unstructured(array) ==
    [i \in Rows |-> [k \in DOMAIN array.names |-> array.cols[array.names[k]][i]]]

\* Data(array, names=names)
Data(array, names) == [array |-> array, names |-> names]

\* renamer.get(n, n)
renamer_get(renamer, n) == IF n \in DOMAIN renamer THEN renamer[n] ELSE n

\* _from_structured_array(array, /, **kwargs)
from_structured_array(array, kw) ==
    IF ~array.structured THEN Raise("TypeError")
    ELSE LET names == IF kw.names.given THEN kw.names.val ELSE array.names
             renamer == IF kw.renamer.given THEN kw.renamer.val ELSE <<>>
             sel == select_fields(array, names)
         IN  IF ~sel.ok THEN sel
             ELSE Ok(Data(structured_to_unstructured(sel.val),
                          [k \in DOMAIN names |-> renamer_get(renamer, names[k])]))

\* FROM_FORMAT_REGISTRY as the module leaves it with numpy and astropy installed
FROM_FORMAT_REGISTRY ==
    [numpy_structured |-> "_from_structured_array",
     astropy_table |-> "_from_astropy_table"]

\* Data.from_format(data, fmt="numpy.structured", **kwargs): the converter the
\* registry holds for the tag, called on data and the keyword arguments
Data_from_format(registry, data_, fmt, kw) ==
    IF fmt \notin DOMAIN registry THEN Raise("KeyError")
    ELSE IF registry[fmt] = "_from_structured_array"
    THEN from_structured_array(data_, kw)
    ELSE Raise("NotModelled")

\* astropy Table.as_array(keep_byteorder=, names=): a structured array of the
\* table's columns, in the table's order, those not in `names` left out; a
\* table without columns gives an empty unstructured array
as_array(table, keep_byteorder, names) ==
    IF table.colnames = <<>> THEN PlainArray
    ELSE LET kept == IF names.given
                     THEN SelectSeq(table.colnames, LAMBDA c : c \in Range(names.val))
                     ELSE table.colnames
         IN  StructuredArray(kept, [n \in Range(kept) |-> table.cols[n]])

\* kwargs.pop(key, default) twice: what is left of the keyword arguments
popped(kw) == [kw EXCEPT !.names = NoOption, !.keep_byteorder = NoFlag]

\* _from_astropy_table(table, /, **kwargs)
from_astropy_table(registry, table, kw) ==
    Data_from_format(registry,
                     as_array(table,
                              IF kw.keep_byteorder.given THEN kw.keep_byteorder.val
                              ELSE FALSE,
                              kw.names),
                     "numpy_structured", popped(kw))

-----------------------------------------------------------------------------
(* Data ingestion specification *)

ColumnNames == {"a", "b", "c"}

\* The column of a field: its cells are labelled by the field and the row
ColumnOf(n) == [i \in Rows |-> <<n, i>>]

\* Sequences of distinct column names, of length at least lo
NameSeqs(lo) ==
    {c \in UNION {[1..n -> ColumnNames] : n \in lo..Cardinality(ColumnNames)} :
        \A a, b \in DOMAIN c : a # b => c[a] # c[b]}

Arrays ==
    {PlainArray}
    \cup {StructuredArray(c, [n \in Range(c) |-> ColumnOf(n)]) : c \in NameSeqs(1)}

Tables == {[colnames |-> c, cols |-> [n \in Range(c) |-> ColumnOf(n)]] : c \in NameSeqs(0)}

NamesOptions == {NoOption} \cup {Option(c) : c \in NameSeqs(1)}

Renamers ==
    {NoOption, Option(<<>>), Option([n \in {"a"} |-> "x"]),
     Option([n \in {"a", "b"} |-> IF n = "a" THEN "b" ELSE "a"]),
     Option([n \in {"c", "z"} |-> IF n = "c" THEN "y" ELSE "w"])}

InitConnect ==
    /\ self = FROM_FORMAT_REGISTRY
    /\ Idle

\* Data.from_format(array, fmt="numpy.structured", names=, renamer=)
FromStructuredArray ==
    /\ op = "idle"
    /\ \E array \in Arrays, names \in NamesOptions, renamer \in Renamers :
          /\ kwargs' = [names |-> names, renamer |-> renamer,
                        keep_byteorder |-> NoFlag]
          /\ data' = array
          /\ result' = from_structured_array(array, kwargs')
    /\ op' = "_from_structured_array"
    /\ mpars' = <<>>
    /\ trace' = <<>>
    /\ UNCHANGED self

\* Data.from_format(table, fmt="astropy.table", names=, renamer=,
\* keep_byteorder=); a names option shares a column with the table
FromAstropyTable ==
    /\ op = "idle"
    /\ \E table \in Tables, names \in NamesOptions, renamer \in Renamers,
          keep \in {NoFlag, Option(TRUE)} :
          /\ names.given => Range(names.val) \cap Range(table.colnames) # {}
          /\ kwargs' = [names |-> names, renamer |-> renamer, keep_byteorder |-> keep]
          /\ data' = table
          /\ result' = from_astropy_table(self, table, kwargs')
          /\ trace' = <<[callee |-> self["numpy_structured"],
                         array |-> as_array(table, keep.given, names),
                         kwargs |-> popped(kwargs')]>>
    /\ op' = "_from_astropy_table"
    /\ mpars' = <<>>
    /\ UNCHANGED self

NextConnect == FromStructuredArray \/ FromAstropyTable \/ Return

SpecConnect == InitConnect /\ [][NextConnect]_vars

-----------------------------------------------------------------------------
(* Claims about data ingestion *)

\* Every name of the `names` option is one of the columns c
NamesAreColumns(c) == kwargs.names.given => Range(kwargs.names.val) \subseteq Range(c)

\* The Data table the claim describes for an input with columns c (in their
\* original order) holding cols: the columns listed in `names` in the order of
\* `names` (all of c when omitted), labelled renamer[n] when n is a key of
\* `renamer` and n otherwise
ExpectedData(c, cols) ==
    LET names == IF kwargs.names.given THEN kwargs.names.val ELSE c
    IN  Data([i \in Rows |-> [k \in DOMAIN names |-> cols[names[k]][i]]],
             [k \in DOMAIN names |->
                 IF kwargs.renamer.given /\ names[k] \in DOMAIN kwargs.renamer.val
                 THEN kwargs.renamer.val[names[k]] ELSE names[k]])

\* C16 (as claimed): the structured-array converter returns a Data table whose
\* columns are exactly those listed in `names`, in the order of `names` (all
\* columns in their original order when omitted), each labelled renamer[n]
\* when n is a key of `renamer` and n otherwise; an unstructured array is
\* rejected with a type error; the table converter delegates to the
\* structured-array converter and gives the same result.
C16_ConvertersSelectAndRename ==
    /\ (op = "_from_structured_array" /\ ~data.structured) =>
          ~result.ok /\ result.val = "TypeError"
    /\ (op = "_from_structured_array" /\ data.structured /\ NamesAreColumns(data.names)) =>
          result.ok /\ result.val = ExpectedData(data.names, data.cols)
    /\ (op = "_from_astropy_table" /\ data.colnames # <<>>
            /\ NamesAreColumns(data.colnames)) =>
          /\ Len(trace) = 1
          /\ trace[1].callee = "_from_structured_array"
          /\ result.ok /\ result.val = ExpectedData(data.colnames, data.cols)

-----------------------------------------------------------------------------
(* Caching descriptors (stream_mapper/core/utils/cached_property.py) *)

\* cached_.__init__(fget) followed by __set_name__(owner, name), as class
\* creation calls it; fget is FALSE for a descriptor made without a getter
cached_(kind, fget, name) ==
    [kind |-> kind, fget |-> fget, name |-> name, name_private |-> "_" \o name]

\* hasattr(obj, a) and object.__setattr__(obj, a, v) on the attributes of obj
hasattr(attrs, a) == a \in DOMAIN attrs
setattr(attrs, a, v) ==
    [k \in DOMAIN attrs \cup {a} |-> IF k = a THEN v ELSE attrs[k]]

\* WrappedValue(value): calling it returns value
WrappedValue(v) == [value |-> v]

\* The getter of the modelled class: a function of the object's attribute x
fget(attrs) == 10 + attrs["x"]

\* What __get__ leaves: the objects' attributes, the number of times fget was
\* invoked on each object, and the value returned or the error raised
Outcome(heap, calls, ret) == [heap |-> heap, calls |-> calls, ret |-> ret]

\* Mutant of cached_property_get: the value is computed at every read
cached_property_get_uncached(prop, obj, heap, calls) ==
    IF obj = "None" THEN Outcome(heap, calls, Ok(prop))
    ELSE IF ~prop.fget THEN Outcome(heap, calls, Raise("AttributeError"))
    ELSE Outcome([heap EXCEPT ![obj] = setattr(@, prop.name_private, fget(@))],
                 [calls EXCEPT ![obj] = @ + 1],
                 Ok(fget(heap[obj])))

\* cached_property.__get__(self, obj, objtype)
cached_property_get(prop, obj, heap, calls) ==
    IF obj = "None" THEN Outcome(heap, calls, Ok(prop))
    ELSE IF ~hasattr(heap[obj], prop.name_private)
    THEN IF ~prop.fget THEN Outcome(heap, calls, Raise("AttributeError"))
         ELSE LET h == [heap EXCEPT ![obj] = setattr(@, prop.name_private, fget(@))]
              IN  Outcome(h, [calls EXCEPT ![obj] = @ + 1],
                          Ok(h[obj][prop.name_private]))
    ELSE Outcome(heap, calls, Ok(heap[obj][prop.name_private]))

\* cached_noargmethod.__get__(self, obj, objtype)
cached_noargmethod_get(prop, obj, heap, calls) ==
    IF obj = "None" THEN Outcome(heap, calls, Ok(prop))
    ELSE IF ~hasattr(heap[obj], prop.name_private)
    THEN IF ~prop.fget THEN Outcome(heap, calls, Raise("AttributeError"))
         ELSE LET h == [heap EXCEPT ![obj] =
                            setattr(@, prop.name_private, WrappedValue(fget(@)))]
              IN  Outcome(h, [calls EXCEPT ![obj] = @ + 1],
                          Ok(h[obj][prop.name_private]))
    ELSE Outcome(heap, calls, Ok(heap[obj][prop.name_private]))

-----------------------------------------------------------------------------
(* Caching specification: a class with one caching descriptor and two       *)
(* instances; self holds the descriptor, the instances' attributes and the  *)
(* number of invocations of the getter on each instance.                    *)

Objects == {"o1", "o2"}
AttrValues == {1, 2, 3}
DescriptorKinds == {"cached_property", "cached_noargmethod"}
DescriptorNames == {"total", "names"}

InitCached ==
    /\ \E kind \in DescriptorKinds, g \in BOOLEAN, name \in DescriptorNames,
          x \in [Objects -> AttrValues] :
          self = [prop |-> cached_(kind, g, name),
                  heap |-> [o \in Objects |-> [a \in {"x"} |-> x[o]]],
                  calls |-> [o \in Objects |-> 0]]
    /\ Idle

\* A read of the attribute: obj.<name> on an instance, or Class.<name>
\* (obj is None)
CachedGet ==
    /\ op = "idle"
    /\ \E obj \in Objects \cup {"None"} :
          LET r == IF self.prop.kind = "cached_property"
                   THEN cached_property_get(self.prop, obj, self.heap, self.calls)
                   ELSE cached_noargmethod_get(self.prop, obj, self.heap, self.calls)
          IN  /\ kwargs' = [obj |-> obj]
              /\ self' = [self EXCEPT !.heap = r.heap, !.calls = r.calls]
              /\ result' = r.ret
    /\ op' = "__get__"
    /\ mpars' = <<>>
    /\ data' = <<>>
    /\ trace' = <<>>

NextCached == CachedGet \/ Return

SpecCached == InitCached /\ [][NextCached]_vars

-----------------------------------------------------------------------------
(* Claims about the caching descriptors *)

\* The value a read hands back for a stored entry: the entry itself; for a
\* cached_noargmethod the entry is a callable and calling it gives the value
Called(entry) == IF self.prop.kind = "cached_noargmethod" THEN entry.value ELSE entry

\* C17: for a cached_property or cached_noargmethod with a getter, over any
\* sequence of reads on the same object the getter is invoked at most once:
\* the first read computes the value and stores it under '_<name>' on the
\* object, every later read returns the stored value (for cached_noargmethod
\* a callable returning it) without calling the getter; a read through the
\* class returns the descriptor and computes nothing.
C17_GetterInvokedAtMostOnce ==
    [][(op' = "__get__" /\ self.prop.fget) =>
          LET obj == kwargs'.obj
              private == "_" \o self.prop.name
          IN  IF obj = "None"
              THEN /\ result'.ok /\ result'.val = self.prop
                   /\ self' = self
              ELSE /\ self'.calls[obj] <= 1
                   /\ \A o \in Objects \ {obj} : /\ self'.heap[o] = self.heap[o]
                                                 /\ self'.calls[o] = self.calls[o]
                   /\ self'.prop = self.prop
                   /\ result'.ok
                   /\ IF self.calls[obj] = 0
                      THEN /\ self'.calls[obj] = 1
                           /\ DOMAIN self'.heap[obj] = DOMAIN self.heap[obj] \cup {private}
                           /\ Called(self'.heap[obj][private]) = fget(self.heap[obj])
                           /\ result'.val = self'.heap[obj][private]
                      ELSE /\ self' = self
                           /\ result'.val = self.heap[obj][private]]_vars

\* A read of an instance that returns the value stored on it, the getter
\* having been invoked once on it and not at all on the other instance
C17_Witness ==
    /\ op = "__get__"
    /\ self.prop.fget
    /\ kwargs.obj \in Objects
    /\ self.calls[kwargs.obj] = 1
    /\ \E o \in Objects : self.calls[o] = 0
    /\ result.ok
    /\ Called(result.val) = 10 + self.heap[kwargs.obj]["x"]

====
